---- MODULE Spec2Model ----
(***************************************************************************)
(* A model of github.com/UNO-SOFT/giro (giro.go): the record normalizer    *)
(* checkAppend, the text column reconstructor parseTXT, the format         *)
(* dispatcher Parse with its parsers, and the document locator             *)
(* SearchXLSURL with its concurrent resolution tasks.                      *)
(*                                                                         *)
(* A Go string is a sequence of bytes; here it is a sequence of one-symbol *)
(* strings, so that trimming, indexing and slicing are computed as the     *)
(* code computes them.  <<>> is the empty string.                          *)
(***************************************************************************)
EXTENDS Naturals, Integers, Sequences, FiniteSets, Bags, TLC

VARIABLES
    \* ---- checkAppend applied to one input record, twice
    rec,            \* the raw record handed to checkAppend
    recs,           \* the records sequence checkAppend appends to
    before,         \* recs as it was when checkAppend was last called
    normPc,         \* "idle" | "raw" | "once" | "twice"
    \* ---- parseTXT
    doc,            \* the text input, a sequence of lines
    pos,            \* lines the scanner has delivered so far
    lines,          \* the page buffer
    records,        \* the records parseTXT has kept
    numberSeen,     \* a digit-initial line was seen
    offered,        \* every candidate handed to checkAppend, in order
    txtPc,          \* "idle" | "scan" | "flush" | "rest" | "last" | "done"
    \* ---- Parse
    input,          \* the reader handed to Parse: its size, leading bytes and table
    parsePc,        \* where Parse is
    calls,          \* the parsers invoked so far, in order
    hit,            \* Parse's hit
    err,            \* Parse's err
    buf,            \* ParsePDF's buf: the chunks of the reader the tee wrote to it
    rpos,           \* how many bytes of the reader have been read
    stdin,          \* the chunks of the reader handed to pdftotext as its input
    \* ---- SearchXLSURL
    srchPc,         \* where the calling goroutine is
    searchURL,      \* the searchURL argument
    pattern,        \* the pattern argument
    candidates,     \* len(candidates): how many hrefs the index page gave
    task,           \* the goroutine of each candidate
    resultsCh,      \* the buffered channel of Locations
    errs,           \* len(errs): how many attempt errors the shared slice holds
    cancelled,      \* the ctx argument is done
    grpErr,         \* the first non-nil error a task returned
    qualified,      \* the bag of Locations that tasks found to match so far
    server,         \* the Location headers the document server answers with
    midway,         \* ctx was cancelled while a task had not ended
    ret             \* what SearchXLSURL returned

normVars == <<rec, recs, before, normPc>>
txtVars == <<doc, pos, lines, records, numberSeen, offered, txtPc>>
parseVars == <<input, parsePc, calls, hit, err, buf, rpos, stdin>>
searchVars ==
    <<srchPc, searchURL, pattern, candidates, task, resultsCh, errs, cancelled, grpErr, qualified,
      server, midway, ret>>
vars == <<normVars, txtVars, parseVars, searchVars>>

\* what the actions of one component leave alone
notNorm == <<txtVars, parseVars, searchVars>>
notTxt == <<normVars, parseVars, searchVars>>
notParse == <<normVars, txtVars, searchVars>>
notSearch == <<normVars, txtVars, parseVars>>

(***************************************************************************)
(* Bytes and strings                                                       *)
(***************************************************************************)
NUL == "NUL"
SP == " "
FF == "FF"
Digits == {"0", "1", "2", "3", "4", "5", "6", "7", "8", "9"}

\* unicode.IsSpace on the bytes that occur here; NUL is not white space
IsSpace(c) == c \in {SP, FF, "TAB"}

\* strings.ReplaceAll(s, "\x00", "")
ReplaceAllNul(s) == SelectSeq(s, LAMBDA c : c # NUL)

RECURSIVE TrimLeft(_)
TrimLeft(s) ==
    IF s = <<>> THEN <<>>
    ELSE IF IsSpace(Head(s)) THEN TrimLeft(Tail(s)) ELSE s

RECURSIVE TrimRight(_)
TrimRight(s) ==
    IF s = <<>> THEN <<>>
    ELSE IF IsSpace(s[Len(s)]) THEN TrimRight(SubSeq(s, 1, Len(s) - 1)) ELSE s

\* strings.TrimSpace / bytes.TrimSpace
TrimSpace(s) == TrimRight(TrimLeft(s))

\* strings.IndexByte(s, c): the 0-based offset of the first c, or -1
IndexByte(s, c) ==
    IF \E i \in 1..Len(s) : s[i] = c
    THEN (CHOOSE i \in 1..Len(s) : s[i] = c /\ \A j \in 1..(i - 1) : s[j] # c) - 1
    ELSE -1

\* strings.IndexFunc(s, func(r) bool { return !('0' <= r && r <= '9') }) < 0
AllDigits(s) == \A i \in 1..Len(s) : s[i] \in Digits

\* the Go slices s[:n] and s[n:], with 0-based n
Slice0(s, n) == SubSeq(s, 1, n)
SliceFrom(s, n) == SubSeq(s, n + 1, Len(s))

(***************************************************************************)
(* Hitelezo and checkAppend                                                *)
(***************************************************************************)
Hitelezo(b, bic, n, i, c) == [Bankszerv |-> b, BIC |-> bic, Nev |-> n, Irszam |-> i, Cim |-> c]

ZeroHitelezo == Hitelezo(<<>>, <<>>, <<>>, <<>>, <<>>)

CodeLen == 8
IrszamLen == 4
MinCimLen == 5

\* lines 459-461: every field but BIC loses its NUL bytes, then is trimmed
Clean(s) == TrimSpace(ReplaceAllNul(s))

Cleaned(h) ==
    Hitelezo(Clean(h.Bankszerv), h.BIC, Clean(h.Nev), Clean(h.Irszam), Clean(h.Cim))

\* a faulty variant of SplitsCim: the four leading bytes are not tested for digits
SplitsCimAnyPrefix(h) ==
    /\ h.Irszam = <<>>
    /\ Len(h.Cim) > MinCimLen
    /\ IndexByte(h.Cim, SP) = IrszamLen

\* lines 462-466: the condition under which the postal code is cut off the address
SplitsCim(h) ==
    /\ h.Irszam = <<>>
    /\ Len(h.Cim) > MinCimLen
    /\ IndexByte(h.Cim, SP) = IrszamLen
    /\ AllDigits(Slice0(h.Cim, IrszamLen))

\* lines 462-469
Recovered(h) ==
    IF SplitsCim(h)
    THEN [h EXCEPT !.Irszam = Slice0(h.Cim, IrszamLen),
                   !.Cim = SliceFrom(h.Cim, IrszamLen + 1)]
    ELSE h

\* lines 459-469: the record checkAppend would store
Normalized(h) == Recovered(Cleaned(h))

\* a faulty variant of Accepts: the length of the code is not tested
AcceptsNonZero(h) == h # ZeroHitelezo

\* line 471
Accepts(h) == h # ZeroHitelezo /\ Len(h.Bankszerv) = CodeLen

checkAppend(rs, h) ==
    IF Accepts(Normalized(h)) THEN Append(rs, Normalized(h)) ELSE rs

(***************************************************************************)
(* checkAppend on its own: one raw record is normalized, and the record    *)
(* that was stored is handed to checkAppend once more.                     *)
(***************************************************************************)
MaxCimLen == 7

StringsUpTo(alphabet, n) == UNION {[1..k -> alphabet] : k \in 0..n}

Ones(n) == [i \in 1..n |-> "1"]

CodeInputs ==
    { <<>>, Ones(CodeLen - 1), Ones(CodeLen), Ones(CodeLen + 1),
      <<NUL, SP>> \o Ones(CodeLen) \o <<SP, NUL>> }
NevInputs == { <<>>, <<SP, "a", NUL>> }
IrszamInputs == { <<>>, <<SP>>, <<"1", "1", "3", "9">> }
CimInputs == StringsUpTo({"1", "a", SP}, MaxCimLen)
BICInput == <<SP, "B">>

\* every code, name and postal code with a few addresses, and every address
\* with a code that is accepted
RawRecords ==
    { Hitelezo(b, BICInput, n, i, c) :
        b \in CodeInputs, n \in NevInputs, i \in IrszamInputs,
        c \in {<<>>, <<SP, NUL>>, <<"1", "1", "1", "1", SP, "a">>, <<"a", SP, "a", SP>>} }
    \cup
    { Hitelezo(<<SP>> \o Ones(CodeLen), BICInput, n, i, c) :
        n \in NevInputs, i \in IrszamInputs, c \in CimInputs }

NormIdle ==
    /\ rec = ZeroHitelezo
    /\ recs = <<>>
    /\ before = <<>>
    /\ normPc = "idle"

InitNorm ==
    /\ rec \in RawRecords
    /\ recs = <<>>
    /\ before = <<>>
    /\ normPc = "raw"

\* records = checkAppend(records, rec) on the raw record
NormFirst ==
    /\ normPc = "raw"
    /\ before' = recs
    /\ recs' = checkAppend(recs, rec)
    /\ normPc' = "once"
    /\ UNCHANGED <<rec, notNorm>>

\* the stored record goes through checkAppend again
NormAgain ==
    /\ normPc = "once"
    /\ Len(recs) > Len(before)
    /\ rec' = recs[Len(recs)]
    /\ before' = recs
    /\ recs' = checkAppend(recs, recs[Len(recs)])
    /\ normPc' = "twice"
    /\ UNCHANGED notNorm

(***************************************************************************)
(* parseTXT                                                                *)
(***************************************************************************)
\* bytes.Contains(s, sub)
Contains(s, sub) ==
    \E i \in 1..(Len(s) - Len(sub) + 1) : SubSeq(s, i, i + Len(sub) - 1) = sub

\* bytes.HasSuffix(s, suf)
HasSuffix(s, suf) ==
    Len(s) >= Len(suf) /\ SubSeq(s, Len(s) - Len(suf) + 1, Len(s)) = suf

\* line 342: []byte("nyes Egyszer") and []byte(" oldal")
FooterFragment == <<"n", "y", "e", "s", " ", "E", "g", "y", "s", "z", "e", "r">>
PageSuffix == <<" ", "o", "l", "d", "a", "l">>

Columns == 4

\* a faulty variant of PageCandidates: the buffer is read row by row
RowMajorCandidates(ls) ==
    LET cols == Len(ls) \div Columns
    IN  [i \in 1..cols |->
            Hitelezo(ls[Columns * (i - 1) + 1], <<>>, ls[Columns * (i - 1) + 2],
                     ls[Columns * (i - 1) + 3], ls[Columns * (i - 1) + 4])]

\* lines 319-324: the candidates of one page buffer, column-major
PageCandidates(ls) ==
    LET cols == Len(ls) \div Columns
    IN  [i \in 1..cols |->
            Hitelezo(ls[0 * cols + i], <<>>, ls[1 * cols + i], ls[2 * cols + i], ls[3 * cols + i])]

\* lines 320-327: records = checkAppend(records, h) for each candidate in turn
RECURSIVE AppendAll(_, _)
AppendAll(rs, hs) ==
    IF hs = <<>> THEN rs ELSE AppendAll(checkAppend(rs, Head(hs)), Tail(hs))

\* lines 333-344: the lines the loop passes over; seen is numberSeen before the line
StartsWithDigit(line) == line # <<>> /\ line[1] \in Digits

SeenAfter(seen, line) == seen \/ StartsWithDigit(line)

Skipped(seen, line) ==
    \/ Len(line) = 0
    \/ ~SeenAfter(seen, line)
    \/ Contains(line, FooterFragment)
    \/ HasSuffix(line, PageSuffix)

\* line 347
IsFormFeedLine(line) == line # <<>> /\ line[1] = FF

TxtIdle ==
    /\ doc = <<>>
    /\ pos = 0
    /\ lines = <<>>
    /\ records = <<>>
    /\ numberSeen = FALSE
    /\ offered = <<>>
    /\ txtPc = "idle"

\* lines 331-346, 355: scanner.Scan() delivers the next line
TxtScan ==
    /\ txtPc = "scan"
    /\ pos < Len(doc)
    /\ LET line == doc[pos + 1]
       IN  /\ pos' = pos + 1
           /\ numberSeen' = SeenAfter(numberSeen, line)
           /\ IF Skipped(numberSeen, line)
              THEN UNCHANGED <<lines, txtPc>>
              ELSE IF IsFormFeedLine(line)
                   THEN txtPc' = "flush" /\ UNCHANGED lines
                   ELSE lines' = Append(lines, TrimSpace(line)) /\ UNCHANGED txtPc
    /\ UNCHANGED <<doc, records, offered, notTxt>>

\* lines 318-329: processLines()
ProcessLines ==
    /\ offered' = offered \o PageCandidates(lines)
    /\ records' = AppendAll(records, PageCandidates(lines))
    /\ lines' = <<>>

\* line 348: the form-feed line flushes the page
TxtFlush ==
    /\ txtPc = "flush"
    /\ ProcessLines
    /\ txtPc' = "rest"
    /\ UNCHANGED <<doc, pos, numberSeen, notTxt>>

\* lines 349-355: a bare form-feed ends the loop, any other one starts the next page
TxtRest ==
    /\ txtPc = "rest"
    /\ LET line == doc[pos]
           rest == SliceFrom(line, 1)
       IN  IF Len(rest) = 0
           THEN txtPc' = "last" /\ UNCHANGED lines
           ELSE txtPc' = "scan" /\ lines' = Append(lines, TrimSpace(line))
    /\ UNCHANGED <<doc, pos, records, numberSeen, offered, notTxt>>

\* line 331: scanner.Scan() reports the end of the input
TxtEOF ==
    /\ txtPc = "scan"
    /\ pos = Len(doc)
    /\ txtPc' = "last"
    /\ UNCHANGED <<doc, pos, lines, records, numberSeen, offered, notTxt>>

\* lines 357-358
TxtLast ==
    /\ txtPc = "last"
    /\ ProcessLines
    /\ txtPc' = "done"
    /\ UNCHANGED <<doc, pos, numberSeen, notTxt>>

(***************************************************************************)
(* The text inputs: up to two pages of a four-column table, written        *)
(* column by column as pdftotext writes them, the second page opened by a  *)
(* form feed, with an optional title, an optional closing form feed and    *)
(* at most one further line put in anywhere, which can be a footer or a    *)
(* page marker at the top of a page, after the form feed.                  *)
(***************************************************************************)
MaxCols == 2

DigitOf(n) == <<"0", "1", "2", "3", "4", "5", "6", "7", "8", "9">>[n + 1]

\* the cell of column c (0..3) in row r of page p
Cell(p, c, r) ==
    CASE c = 0 -> <<"1", "0", "0", "0", "0", "0", DigitOf(p), DigitOf(r)>>
      [] c = 1 -> <<"N", DigitOf(p), DigitOf(r), SP>>
      [] c = 2 -> <<"1", "1", DigitOf(p), DigitOf(r)>>
      [] OTHER -> <<SP, "A", DigitOf(p), DigitOf(r)>>

PageText(p, k) ==
    [j \in 1..(Columns * k) |-> Cell(p, (j - 1) \div k, ((j - 1) % k) + 1)]

OpenedByFormFeed(ls) ==
    IF ls = <<>> THEN <<>> ELSE <<(<<FF>> \o Head(ls))>> \o Tail(ls)

TitleLine == <<"T", "i", "t", "l", "e">>
ExtraLines ==
    { <<>>,
      <<SP, SP>>,
      <<"x">>,
      <<"k", "e", "d", "v", "e", "z", "m", "e">> \o FooterFragment,
      <<"3">> \o PageSuffix,
      <<FF, "k", "e", "d", "v", "e", "z", "m", "e">> \o FooterFragment,
      <<FF, "3">> \o PageSuffix }

InsertAt(ls, at, l) == SubSeq(ls, 1, at) \o <<l>> \o SubSeq(ls, at + 1, Len(ls))

PlainDocs ==
    { (IF title THEN <<TitleLine>> ELSE <<>>)
        \o PageText(1, k1) \o OpenedByFormFeed(PageText(2, k2))
        \o (IF closed THEN <<(<<FF>>)>> ELSE <<>>) :
        title \in BOOLEAN, k1 \in 0..MaxCols, k2 \in 0..MaxCols, closed \in BOOLEAN }

Docs ==
    PlainDocs \cup
    UNION { { InsertAt(d, at, l) : at \in 0..Len(d), l \in ExtraLines } : d \in PlainDocs }

InitTxt ==
    /\ doc \in Docs
    /\ pos = 0
    /\ lines = <<>>
    /\ records = <<>>
    /\ numberSeen = FALSE
    /\ offered = <<>>
    /\ txtPc = "scan"

\* parseTXT as a whole: the loop of lines 331-356 and the last flush of line 357
RECURSIVE ScanAll(_, _, _, _, _)
ScanAll(d, p, ls, rs, seen) ==
    IF p = Len(d)
    THEN AppendAll(rs, PageCandidates(ls))
    ELSE LET line == d[p + 1]
         IN  IF Skipped(seen, line)
             THEN ScanAll(d, p + 1, ls, rs, SeenAfter(seen, line))
             ELSE IF IsFormFeedLine(line)
                  THEN IF Len(SliceFrom(line, 1)) = 0
                       THEN AppendAll(rs, PageCandidates(ls))
                       ELSE ScanAll(d, p + 1, <<TrimSpace(line)>>,
                                    AppendAll(rs, PageCandidates(ls)), TRUE)
                  ELSE ScanAll(d, p + 1, Append(ls, TrimSpace(line)), rs, TRUE)

parseTXT(d) == ScanAll(d, 0, <<>>, <<>>, FALSE)

(***************************************************************************)
(* Parse, ParsePDF, parsePDFTabula, parsePDFPdfToText, ParseXLSX, ParseXLS *)
(*                                                                         *)
(* The reader is described by its size, its leading bytes and the table it *)
(* holds.  The decoding libraries and the two external tools are not part  *)
(* of the program: what they answer is chosen among the answers they can   *)
(* give for such a reader.                                                 *)
(***************************************************************************)
ErrNil == "nil"
ErrEOF == "EOF"
ErrZip == "zip: not a valid zip file"
ErrUnsupported == "unsupported workbook file format"
ErrCanceled == "context canceled"
ErrOther == "other"

\* line 202: var a [1024]byte
SniffLen == 1024

\* line 210: []byte("%PDF-1")
PdfMagic == <<"%", "P", "D", "F", "-", "1">>
PdfHead == PdfMagic \o <<".", "4">>
Pdf2Head == <<"%", "P", "D", "F", "-", "2", ".", "0">>
ZipHead == <<"P", "K">>
OleHead == <<"D0", "CF", "11", "E0">>

\* bytes.HasPrefix(b, prefix)
HasPrefix(b, prefix) == Len(b) >= Len(prefix) /\ SubSeq(b, 1, Len(prefix)) = prefix

\* line 203: sr.ReadAt(a[:], 0) reads fewer than len(a) bytes only with an error
ReadAtErr(size) == IF size < SniffLen THEN ErrEOF ELSE ErrNil

\* lines 216-218: strings.Contains(err.Error(), "not a valid zip"), (..., "unsupported")
WantsLegacy(e) == e # ErrNil /\ e \in {ErrZip, ErrUnsupported}

\* line 222
Incomplete(h) == h.Bankszerv = <<>> \/ h.Nev = <<>> \/ (h.Irszam = <<>> /\ h.Cim = <<>>)

\* lines 221-227: the record at i is overwritten by the last one, which is cut off
RECURSIVE CleanupFrom(_, _)
CleanupFrom(h, i) ==
    IF i > Len(h) THEN h
    ELSE IF Incomplete(h[i])
         THEN CleanupFrom(SubSeq([h EXCEPT ![i] = h[Len(h)]], 1, Len(h) - 1), i)
         ELSE CleanupFrom(h, i + 1)

Cleanup(h) == CleanupFrom(h, 1)

Result(h, e) == [hit |-> h, err |-> e, panicked |-> FALSE]
Panic == [hit |-> <<>>, err |-> ErrNil, panicked |-> TRUE]

\* line 389
AddressHeader == <<"Address of the branch office">>

\* lines 374, 389-391, 396-398: dst, filled from the row
RecOf(noIrszam, row) ==
    IF noIrszam
    THEN Hitelezo(row[1], row[2], row[3], <<>>, row[4])
    ELSE Hitelezo(row[1], <<>>, row[2], row[3], row[4])

\* lines 375-405, from data row i on; the loop ends early when rows.Columns()
\* fails (stop.why = "columns") or ctx is done (stop.why = "ctx") at row stop.at
RECURSIVE XLSXLoop(_, _, _, _, _)
XLSXLoop(rows, noIrszam, i, rs, stop) ==
    IF i > Len(rows) THEN Result(rs, ErrNil)
    ELSE IF stop.at = i /\ stop.why = "columns" THEN Result(rs, ErrNil)
    ELSE IF Len(rows[i]) < Columns THEN Panic
    ELSE LET rs2 == checkAppend(rs, RecOf(noIrszam, rows[i]))
         IN  IF stop.at = i /\ stop.why = "ctx"
             THEN Result(rs2, ErrCanceled)
             ELSE XLSXLoop(rows, noIrszam, i + 1, rs2, stop)

\* lines 371-407 on an opened workbook whose first sheet is header and rows
XLSXSheet(header, rows, stop) ==
    IF Len(header) < Columns THEN Panic
    ELSE XLSXLoop(rows, header[Columns] = AddressHeader, 1, <<>>, stop)

\* row.Col(off + j): a missing cell reads as ""
Col(row, j) == IF j <= Len(row) THEN row[j] ELSE <<>>

\* lines 429-444
RECURSIVE XLSLoop(_, _, _, _)
XLSLoop(rows, i, rs, stop) ==
    IF i > Len(rows) THEN Result(rs, ErrNil)
    ELSE LET rs2 == checkAppend(rs,
                        Hitelezo(Col(rows[i], 1), <<>>, Col(rows[i], 2),
                                 Col(rows[i], 3), Col(rows[i], 4)))
         IN  IF stop.at = i /\ stop.why = "ctx"
             THEN Result(rs2, ErrCanceled)
             ELSE XLSLoop(rows, i + 1, rs2, stop)

\* lines 276-289: the CSV rows of the tool, header row included; encoding/csv
\* refuses a row whose field count differs from the first row's
RECURSIVE CSVLoop(_, _, _, _)
CSVLoop(rows, i, h, waitErr) ==
    IF i > Len(rows) THEN Result(h, waitErr)
    ELSE IF Len(rows[i]) # Len(rows[1]) THEN Result(h, ErrOther)
    ELSE IF Len(rows[i]) < Columns THEN Panic
    ELSE CSVLoop(rows, i + 1,
                 Append(h, Hitelezo(rows[i][1], <<>>, rows[i][2], rows[i][3], rows[i][4])),
                 waitErr)

(***************************************************************************)
(* The readers Parse is given                                              *)
(***************************************************************************)
MaxRows == 3

RowKinds == {"ok", "noname", "noaddr", "badcode", "short"}

\* data row r of the table; every row has its own code
RowOf(kind, r) ==
    CASE kind = "ok" -> <<Cell(1, 0, r), Cell(1, 1, r), Cell(1, 2, r), Cell(1, 3, r)>>
      [] kind = "noname" -> <<Cell(1, 0, r), <<SP>>, Cell(1, 2, r), Cell(1, 3, r)>>
      [] kind = "noaddr" -> <<Cell(1, 0, r), Cell(1, 1, r), <<>>, <<>>>>
      [] kind = "badcode" -> <<Tail(Cell(1, 0, r)), Cell(1, 1, r), Cell(1, 2, r), Cell(1, 3, r)>>
      [] OTHER -> <<Cell(1, 0, r), Cell(1, 1, r), Cell(1, 2, r)>>

HeaderOf(kind) ==
    CASE kind = "default" -> << <<"C">>, <<"N">>, <<"P">>, <<"A">> >>
      [] kind = "sht" -> << <<"C">>, <<"B">>, <<"N">>, AddressHeader >>
      [] OTHER -> << <<"C">>, <<"N">>, <<"P">> >>

Rows(in) == [r \in 1..Len(in.rows) |-> RowOf(in.rows[r], r)]

\* the text pdftotext writes for the table: a title, the cells column by
\* column, a closing form feed
TextOf(in) ==
    LET n == Len(in.rows)
    IN  <<TitleLine>>
        \o [j \in 1..(Columns * n) |-> Col(Rows(in)[((j - 1) % n) + 1], ((j - 1) \div n) + 1)]
        \o << <<FF>> >>

Readers ==
    [ size : {SniffLen - 1, SniffLen},
      head : {PdfHead, Pdf2Head, ZipHead, OleHead},
      header : {"default", "sht", "short"},
      rows : UNION {[1..n -> RowKinds] : n \in 0..MaxRows} ]

NoReader == [size |-> 0, head |-> <<>>, header |-> "default", rows |-> <<>>]

Stops(in) ==
    {[at |-> 0, why |-> "none"]}
        \cup [at : 1..Len(in.rows), why : {"ctx", "columns"}]

\* what ParseXLSX can return for the reader
XLSXResults(in) ==
    IF in.head = ZipHead
    THEN {Result(<<>>, ErrOther)}
            \cup {XLSXSheet(HeaderOf(in.header), Rows(in), stop) : stop \in Stops(in)}
    ELSE IF in.head = OleHead
         THEN {Result(<<>>, ErrUnsupported)}
         ELSE {Result(<<>>, ErrZip)}

\* what ParseXLS can return for the reader, and whether it went on to ParseXLSX
\* (lines 413-420) because the legacy decoder could not open the stream
XLSResults(in) ==
    IF in.head = OleHead
    THEN {[res |-> Result(<<>>, ErrOther), nested |-> FALSE],
          [res |-> Result(<<>>, ErrUnsupported), nested |-> TRUE]}
            \cup {[res |-> XLSLoop(Rows(in), 1, <<>>, stop), nested |-> FALSE] :
                    stop \in {x \in Stops(in) : x.why # "columns"}}
    ELSE {[res |-> r, nested |-> TRUE] : r \in XLSXResults(in)}

\* bytes from up to to of the reader, as one Read delivers them
Chunk(from, to) == [from |-> from, to |-> to]

\* a faulty variant of TeeRead: the chunk read is not written to buf
TeeNothing(b, chunk) == b

\* line 233: io.TeeReader(r, &buf) writes to buf every chunk that is read from r
TeeRead(b, chunk) == Append(b, chunk)

\* line 258: io.Copy reads the first n bytes of the reader through the tee, the
\* first half of the input in one Read and what follows in another
Copied(n, size) ==
    LET half == size \div 2
    IN  IF n = 0 THEN <<>>
        ELSE IF n <= half THEN TeeRead(<<>>, Chunk(0, n))
        ELSE TeeRead(TeeRead(<<>>, Chunk(0, half)), Chunk(half, n))

\* line 239: io.MultiReader(bytes.NewReader(buf.Bytes()), r) delivers the bytes
\* of buf and then what r has left, which is read from where r stands
MultiReader(b, from, size) == Append(b, Chunk(from, size))

\* the chunks are the bytes of the reader from at to its end, each byte once
\* and in order
RECURSIVE WholeFrom(_, _, _)
WholeFrom(cs, at, size) ==
    IF cs = <<>> THEN at = size
    ELSE /\ Head(cs).from = at
         /\ Head(cs).to >= at
         /\ WholeFrom(Tail(cs), Head(cs).to, size)

\* what parsePDFTabula can return for the reader and how much of the reader it
\* has read by then: it fails before the copy (lines 245-257), in the copy
\* (line 258), between the copy and the CSV (lines 261-274), or it reads the
\* CSV of the tool (lines 275-289)
TabulaResults(in) ==
    {[res |-> Result(<<>>, ErrOther), read |-> n] : n \in {0, in.size \div 2, in.size - 1, in.size}}
        \cup {[res |-> CSVLoop(<<HeaderOf(in.header)>> \o Rows(in), 1, <<>>, w), read |-> in.size] :
                    w \in {ErrNil, ErrOther}}

\* what parsePDFPdfToText can return for the reader when its input is the
\* stream: from a stream that is not the whole PDF, pdftotext gives no text
PdfToTextResults(in, stream) ==
    {Result(<<>>, ErrOther)}
        \cup (IF WholeFrom(stream, 0, in.size)
              THEN {Result(parseTXT(TextOf(in)), w) : w \in {ErrNil, ErrOther}}
              ELSE {})

ParseIdle ==
    /\ input = NoReader
    /\ parsePc = "idle"
    /\ calls = <<>>
    /\ hit = <<>>
    /\ err = ErrNil
    /\ buf = <<>>
    /\ rpos = 0
    /\ stdin = <<>>

InitParse ==
    /\ input \in Readers
    /\ parsePc = "start"
    /\ calls = <<>>
    /\ hit = <<>>
    /\ err = ErrNil
    /\ buf = <<>>
    /\ rpos = 0
    /\ stdin = <<>>

\* lines 190-207: the reader is buffered and its first 1024 bytes are read
ParseOpen ==
    /\ parsePc = "start"
    /\ \E ioErr \in {ErrNil, ErrOther} :
        LET e == IF ioErr # ErrNil THEN ioErr ELSE ReadAtErr(input.size)
        IN  /\ err' = e
            /\ parsePc' = IF e # ErrNil THEN "returned" ELSE "sniffed"
    /\ UNCHANGED <<input, calls, hit, buf, rpos, stdin, notParse>>

\* lines 210-211, 233-237
ParsePDFTabula ==
    /\ parsePc = "sniffed"
    /\ HasPrefix(input.head, PdfMagic)
    /\ calls' = Append(calls, "parsePDFTabula")
    /\ \E x \in TabulaResults(input) :
        /\ hit' = x.res.hit
        /\ err' = x.res.err
        /\ buf' = Copied(x.read, input.size)
        /\ rpos' = x.read
        /\ parsePc' = IF x.res.panicked THEN "panicked"
                      ELSE IF x.res.err = ErrNil THEN "returned" ELSE "pdftotext"
    /\ UNCHANGED <<input, stdin, notParse>>

\* line 239
ParsePDFPdfToText ==
    /\ parsePc = "pdftotext"
    /\ calls' = Append(calls, "parsePDFPdfToText")
    /\ stdin' = MultiReader(buf, rpos, input.size)
    /\ \E r \in PdfToTextResults(input, stdin') :
        /\ hit' = r.hit
        /\ err' = r.err
    /\ parsePc' = "returned"
    /\ UNCHANGED <<input, buf, rpos, notParse>>

\* lines 214-218
ParseModern ==
    /\ parsePc = "sniffed"
    /\ ~HasPrefix(input.head, PdfMagic)
    /\ calls' = Append(calls, "ParseXLSX")
    /\ \E r \in XLSXResults(input) :
        /\ hit' = r.hit
        /\ err' = r.err
        /\ parsePc' = IF r.panicked THEN "panicked"
                      ELSE IF WantsLegacy(r.err) THEN "legacy" ELSE "cleanup"
    /\ UNCHANGED <<input, buf, rpos, stdin, notParse>>

\* line 219
ParseLegacy ==
    /\ parsePc = "legacy"
    /\ \E x \in XLSResults(input) :
        /\ calls' = calls \o (IF x.nested THEN <<"ParseXLS", "ParseXLSX">> ELSE <<"ParseXLS">>)
        /\ hit' = x.res.hit
        /\ err' = x.res.err
        /\ parsePc' = IF x.res.panicked THEN "panicked" ELSE "cleanup"
    /\ UNCHANGED <<input, buf, rpos, stdin, notParse>>

\* lines 221-228
ParseCleanup ==
    /\ parsePc = "cleanup"
    /\ hit' = Cleanup(hit)
    /\ parsePc' = "returned"
    /\ UNCHANGED <<input, calls, err, buf, rpos, stdin, notParse>>

(***************************************************************************)
(* SearchXLSURL                                                            *)
(***************************************************************************)
\* the bytes that occur in file names, in byte order
Ascii ==
    <<"-", ".", "/", "0", "1", "2", "3", "4", "5", "6", "7", "8", "9",
      "A", "B", "C", "D", "E", "F", "G", "H", "I", "J", "K", "L", "M",
      "N", "O", "P", "Q", "R", "S", "T", "U", "V", "W", "X", "Y", "Z", "_",
      "a", "b", "c", "d", "e", "f", "g", "h", "i", "j", "k", "l", "m",
      "n", "o", "p", "q", "r", "s", "t", "u", "v", "w", "x", "y", "z">>

Ord(c) == CHOOSE i \in 1..Len(Ascii) : Ascii[i] = c

\* a < b on Go strings
RECURSIVE StrLess(_, _)
StrLess(a, b) ==
    IF b = <<>> THEN FALSE
    ELSE IF a = <<>> THEN TRUE
    ELSE IF Head(a) = Head(b) THEN StrLess(Tail(a), Tail(b))
    ELSE Ord(Head(a)) < Ord(Head(b))

RECURSIVE StripSlashes(_)
StripSlashes(s) ==
    IF s # <<>> /\ s[Len(s)] = "/" THEN StripSlashes(SubSeq(s, 1, Len(s) - 1)) ELSE s

\* strings.LastIndexByte(s, '/') + 1: the 1-based place after the last slash
AfterLastSlash(s) ==
    IF \E i \in 1..Len(s) : s[i] = "/"
    THEN (CHOOSE i \in 1..Len(s) : s[i] = "/" /\ \A j \in (i + 1)..Len(s) : s[j] # "/") + 1
    ELSE 1

\* path.Base
Base(p) ==
    IF p = <<>> THEN <<".">>
    ELSE LET q == StripSlashes(p)
             e == SubSeq(q, AfterLastSlash(q), Len(q))
         IN  IF e = <<>> THEN <<"/">> ELSE e

\* line 44: DefaultPattern, and a pattern of the caller that matches every name
DefaultPattern == "default"
AnyPattern == ".*"

Exts == { <<"p", "d", "f">>, <<"x", "l", "s">>, <<"x", "l", "s", "x">> }

DigitsAt(s, from, to) == \A i \in from..to : s[i] \in Digits

\* [0-9]{8} | [0-9]{4}[_-][0-9]{2}[_-][0-9]{2} | 2[0-9]{5}
EHTDate(m) ==
    \/ Len(m) = 8 /\ DigitsAt(m, 1, 8)
    \/ /\ Len(m) = 10
       /\ DigitsAt(m, 1, 4) /\ m[5] \in {"_", "-"}
       /\ DigitsAt(m, 6, 7) /\ m[8] \in {"_", "-"}
       /\ DigitsAt(m, 9, 10)
    \/ Len(m) = 6 /\ m[1] = "2" /\ DigitsAt(m, 2, 6)

\* [0-9]{2}_[0-9]{2}_2[0-9]{3}
AVTDate(m) ==
    /\ Len(m) = 10
    /\ DigitsAt(m, 1, 2) /\ m[3] = "_"
    /\ DigitsAt(m, 4, 5) /\ m[6] = "_"
    /\ m[7] = "2" /\ DigitsAt(m, 8, 10)

\* bn is prefix, a middle part, ".", ext
Framed(bn, prefix, ext) ==
    /\ HasPrefix(bn, prefix)
    /\ HasSuffix(bn, <<".">> \o ext)
    /\ Len(bn) >= Len(prefix) + 1 + Len(ext)

\* the middle part of such a name
Middle(bn, prefix, ext) == SubSeq(bn, Len(prefix) + 1, Len(bn) - Len(ext) - 1)

MatchesDefault(bn) ==
    \/ Contains(bn, <<"-", "x", "l", "s", "-">>)
    \/ \E ext \in Exts :
        LET eht == <<"E", "H", "T", "_">>
        IN  Framed(bn, eht, ext) /\ EHTDate(Middle(bn, eht, ext))
    \/ \E ext \in Exts :
        LET avt == <<"A", "V", "T", "_">>
        IN  Framed(bn, avt, ext) /\ AVTDate(Middle(bn, avt, ext))

\* rPattern.MatchString(bn)
MatchString(pat, bn) == IF pat = DefaultPattern THEN MatchesDefault(bn) ELSE TRUE

\* line 42
DefaultXLSXURL == <<"https://www.mnb.hu/letoltes/sht.xlsx">>
DefaultURL == <<"https://www.giro.hu/dokumentumok">>

ErrNotFound == "not found"
ErrIndex == "index page"

\* line 107: retry.Strategy{..., MaxCount: 3}
MaxCount == 3
\* line 112: grp.SetLimit(8); the limit is kept below the number of candidates
\* of the model, as 8 is below the number of hrefs of the index page, so that
\* grp.Go has to wait for a running task to end
Limit == 2
\* line 109: the capacity of resultsCh, 1024 in the code
ResultsCap == 2
\* the most hrefs the index page holds
MaxCandidates == 3

\* the Location headers of the document servers
LocOld == <<"/", "d", "/", "E", "H", "T", "_", "2", "0", "2", "1", "0", "4", "0", "1", ".", "p", "d", "f">>
\* the same file name as LocOld in another directory
LocOldMoved == <<"/", "e", "/", "E", "H", "T", "_", "2", "0", "2", "1", "0", "4", "0", "1", ".", "p", "d", "f">>
LocNew == <<"/", "d", "/", "a", "-", "x", "l", "s", "-", "1">>
LocOther == <<"/", "d", "/", "E", "H", "T", ".", "t", "x", "t">>
NoLocation == <<>>

\* the document servers: one with dated and undated files, one that keeps the
\* same file in two directories
Servers == { {LocOld, LocNew, LocOther, NoLocation}, {LocOld, LocOldMoved} }

\* what noRedir.Do can return as a response
Responses ==
    {[status |-> 200, loc |-> NoLocation]} \cup [status : {302}, loc : server]

\* noRedir.Do returned an error instead of a response
TransportError == [status |-> 0, loc |-> NoLocation]

\* an href of the index page: url.Parse refuses it, or it has no scheme, or it is
\* absolute; each href is read once, by its task, where the model chooses which it is
Hrefs == {"bad", "rel", "abs"}

\* lines 132-135: http.NewRequest("GET", u.String(), nil) parses the text of a
\* URL that url.Parse accepted at line 115, which net/url parses again
NewRequestFails(href) == FALSE

\* a task: where it is, the requests it has made, and the errs it read at line 139
NoTask == [pc |-> "new", attempt |-> 0, snap |-> 0]

\* a return statement of SearchXLSURL, by its line, with the values it returns
Return(line, url, e, joined) == [line |-> line, url |-> url, err |-> e, joined |-> joined]
NoReturn == Return(0, <<>>, ErrNil, 0)

\* a faulty variant of NotFound: errors.Join(errs...) alone, nil when errs is empty
JoinedOnly(es) == Return(177, <<>>, IF es = 0 THEN ErrNil ELSE "joined", es)

\* line 177: fmt.Errorf("%w: %w", ErrNotFound, errors.Join(errs...))
NotFound(es) == Return(177, <<>>, ErrNotFound, es)

\* the ctx of line 111: done when the caller's ctx is, or when a task returned an error
CtxDone == cancelled \/ grpErr # ErrNil

\* a faulty variant of IterNext: iter.Next(nil), which only waits
IterNextNil(done) == TRUE

\* line 143: iter.Next(stop) of a task that has attempts left waits for the delay
\* and returns true, unless stop is closed: then it returns false at once
IterNext(done) == ~done

Active == {i \in DOMAIN task : task[i].pc \notin {"new", "done"}}

\* a faulty variant of HasRoom: one task more than the limit
HasRoomInclusive(n) == n <= Limit

\* lines 112-114: grp.Go blocks while the group has Limit tasks running
HasRoom(n) == n < Limit

\* a faulty variant of Exhausted: one more attempt
ExhaustedLate(attempt) == attempt > MaxCount

\* lines 107, 143: iter.Next returns false when the attempts made, the one
\* before the first iter.Next included, are MaxCount
Exhausted(attempt) == attempt >= MaxCount

SearchIdle ==
    /\ srchPc = "idle"
    /\ searchURL = <<>>
    /\ pattern = DefaultPattern
    /\ candidates = 0
    /\ task = <<>>
    /\ resultsCh = <<>>
    /\ errs = 0
    /\ cancelled = FALSE
    /\ grpErr = ErrNil
    /\ qualified = EmptyBag
    /\ server = {}
    /\ midway = FALSE
    /\ ret = NoReturn

InitSearch ==
    /\ srchPc = "start"
    /\ searchURL \in {DefaultXLSXURL, DefaultURL}
    /\ pattern \in {DefaultPattern, AnyPattern}
    /\ candidates = 0
    /\ task = <<>>
    /\ resultsCh = <<>>
    /\ errs = 0
    /\ cancelled = FALSE
    /\ grpErr = ErrNil
    /\ qualified = EmptyBag
    /\ server \in Servers
    /\ midway = FALSE
    /\ ret = NoReturn

\* lines 49-51
SearchDirect ==
    /\ srchPc = "start"
    /\ searchURL = DefaultXLSXURL
    /\ ret' = Return(50, searchURL, ErrNil, 0)
    /\ srchPc' = "returned"
    /\ UNCHANGED <<searchURL, pattern, candidates, task, resultsCh, errs, cancelled,
                   grpErr, qualified, server, midway,
                   notSearch>>

\* lines 58-71, 75-87: the index page cannot be fetched, answers with a status
\* above 399, or cannot be tokenized
SearchIndexFails ==
    /\ srchPc = "start"
    /\ searchURL # DefaultXLSXURL
    /\ ret' = Return(64, <<>>, ErrIndex, 0)
    /\ srchPc' = "returned"
    /\ UNCHANGED <<searchURL, pattern, candidates, task, resultsCh, errs, cancelled,
                   grpErr, qualified, server, midway,
                   notSearch>>

\* lines 58-110: the index page is fetched and its hrefs are collected
SearchCrawl ==
    /\ srchPc = "start"
    /\ searchURL # DefaultXLSXURL
    /\ ~cancelled
    /\ \E n \in 0..MaxCandidates :
        /\ candidates' = n
        /\ task' = [i \in 1..n |-> NoTask]
    /\ srchPc' = "resolve"
    /\ UNCHANGED <<searchURL, pattern, resultsCh, errs, cancelled, grpErr, qualified, ret,
                   server, midway,
                   notSearch>>

\* lines 113-114: grp.Go starts the next candidate's task once fewer than Limit run
SearchGo ==
    /\ srchPc = "resolve"
    /\ \E i \in DOMAIN task :
        /\ task[i].pc = "new"
        /\ \A j \in 1..(i - 1) : task[j].pc # "new"
        /\ HasRoom(Cardinality(Active))
        /\ task' = [task EXCEPT ![i].pc = "run"]
    /\ UNCHANGED <<srchPc, searchURL, pattern, candidates, resultsCh, errs, cancelled,
                   grpErr, qualified, ret, server, midway,
                   notSearch>>

\* a faulty variant of TrySend: the result is kept when resultsCh is full
SendAlways(ch, loc) == Append(ch, loc)

\* lines 158-161: the send that never blocks
TrySend(ch, loc) == IF Len(ch) < ResultsCap THEN Append(ch, loc) ELSE ch

\* lines 148-162: whether the response's Location goes to resultsCh
Forwarded(resp) ==
    /\ resp.status = 302
    /\ Base(resp.loc) # <<>>
    /\ MatchString(pattern, Base(resp.loc))

\* lines 138-165: one noRedir.Do of task i and what follows it in the task: an
\* error is to be appended to errs, a response is looked at and the task returns
\* (its locals, attempt among them, are gone); a request under a done ctx fails
Request(i) ==
    \E outcome \in {TransportError} \cup (IF CtxDone THEN {} ELSE Responses) :
        IF outcome = TransportError
        THEN /\ task' = [task EXCEPT ![i].pc = "append",
                                     ![i].attempt = @ + 1,
                                     ![i].snap = errs]
             /\ UNCHANGED <<resultsCh, qualified>>
        ELSE /\ task' = [task EXCEPT ![i].pc = "done", ![i].attempt = 0]
             /\ IF Forwarded(outcome)
                THEN /\ resultsCh' = TrySend(resultsCh, outcome.loc)
                     /\ qualified' = qualified (+) SetToBag({outcome.loc})
                ELSE UNCHANGED <<resultsCh, qualified>>

\* lines 115-138: the task parses v, its href, and makes its first request
TaskStart(i) ==
    /\ task[i].pc = "run"
    /\ \E v \in Hrefs :
       IF v # "abs"
       THEN /\ task' = [task EXCEPT ![i].pc = "done"]
            /\ UNCHANGED <<resultsCh, qualified, grpErr>>
       ELSE IF NewRequestFails(v)
            THEN /\ task' = [task EXCEPT ![i].pc = "done"]
                 /\ grpErr' = IF grpErr = ErrNil THEN "new request" ELSE grpErr
                 /\ UNCHANGED <<resultsCh, qualified>>
            ELSE Request(i) /\ UNCHANGED grpErr
    /\ UNCHANGED <<srchPc, searchURL, pattern, candidates, errs, cancelled, ret, server, midway,
                   notSearch>>

\* line 139: errs = append(errs, ...) writes back what it read when the request
\* failed, with the new error added; lines 143-145: iter.Next has no attempt left
TaskAppend(i) ==
    /\ task[i].pc = "append"
    /\ errs' = task[i].snap + 1
    /\ task' = [task EXCEPT ![i].pc = IF Exhausted(task[i].attempt) THEN "done" ELSE "wait",
                            ![i].attempt = IF Exhausted(task[i].attempt) THEN 0 ELSE @,
                            ![i].snap = 0]
    /\ UNCHANGED <<srchPc, searchURL, pattern, candidates, resultsCh, cancelled, grpErr,
                   qualified, ret, server, midway,
                   notSearch>>

\* line 143: iter.Next(ctx.Done()) returns true when the delay is over
TaskRetry(i) ==
    /\ task[i].pc = "wait"
    /\ IterNext(CtxDone)
    /\ Request(i)
    /\ UNCHANGED <<srchPc, searchURL, pattern, candidates, errs, cancelled, grpErr, ret,
                   server, midway, notSearch>>

\* lines 143-145: iter.Next(ctx.Done()) returns false as ctx is done
TaskStop(i) ==
    /\ task[i].pc = "wait"
    /\ ~IterNext(CtxDone)
    /\ task' = [task EXCEPT ![i].pc = "done", ![i].attempt = 0]
    /\ UNCHANGED <<srchPc, searchURL, pattern, candidates, resultsCh, errs, cancelled,
                   grpErr, qualified, ret, server, midway,
                   notSearch>>

\* a faulty variant of SortedLast: the last result as received, without the sort
UnsortedLast(results) == {results[Len(results)]}

\* lines 179-183: sort.Slice by path.Base is not stable, so the last element is
\* any result whose base no other result's base exceeds
SortedLast(results) ==
    {results[k] : k \in {k \in 1..Len(results) :
                            \A m \in 1..Len(results) :
                                ~StrLess(Base(results[k]), Base(results[m]))}}

\* lines 168-183
SearchWait ==
    /\ srchPc = "resolve"
    /\ \A i \in DOMAIN task : task[i].pc = "done"
    /\ IF grpErr # ErrNil
       THEN ret' = Return(169, <<>>, grpErr, 0)
       ELSE IF Len(resultsCh) = 0
            THEN ret' = NotFound(errs)
            ELSE \E u \in SortedLast(resultsCh) : ret' = Return(183, u, ErrNil, 0)
    /\ srchPc' = "returned"
    /\ UNCHANGED <<searchURL, pattern, candidates, task, resultsCh, errs, cancelled,
                   grpErr, qualified, server, midway,
                   notSearch>>

\* the caller cancels ctx
Cancel ==
    /\ srchPc \in {"start", "resolve"}
    /\ ~cancelled
    /\ cancelled' = TRUE
    /\ midway' = (\E i \in DOMAIN task : task[i].pc # "done")
    /\ UNCHANGED <<srchPc, searchURL, pattern, candidates, task, resultsCh, errs, grpErr,
                   qualified, ret, server, notSearch>>

(***************************************************************************)
(* Specifications                                                          *)
(***************************************************************************)
InitNormOnly == InitNorm /\ TxtIdle /\ ParseIdle /\ SearchIdle
NextNorm == NormFirst \/ NormAgain
SpecNorm == InitNormOnly /\ [][NextNorm]_vars

InitTxtOnly == InitTxt /\ NormIdle /\ ParseIdle /\ SearchIdle
NextTxt == TxtScan \/ TxtFlush \/ TxtRest \/ TxtEOF \/ TxtLast
SpecTxt == InitTxtOnly /\ [][NextTxt]_vars

InitParseOnly == InitParse /\ NormIdle /\ TxtIdle /\ SearchIdle
NextParse ==
    \/ ParseOpen
    \/ ParsePDFTabula
    \/ ParsePDFPdfToText
    \/ ParseModern
    \/ ParseLegacy
    \/ ParseCleanup
SpecParse == InitParseOnly /\ [][NextParse]_vars

InitSearchOnly == InitSearch /\ NormIdle /\ TxtIdle /\ ParseIdle
Program ==
    \/ SearchDirect
    \/ SearchIndexFails
    \/ SearchCrawl
    \/ SearchGo
    \/ \E i \in DOMAIN task : TaskStart(i)
    \/ \E i \in DOMAIN task : TaskAppend(i)
    \/ \E i \in DOMAIN task : TaskRetry(i)
    \/ \E i \in DOMAIN task : TaskStop(i)
    \/ SearchWait
NextSearch == Program \/ Cancel
SpecSearch == InitSearchOnly /\ [][NextSearch]_vars
\* the calling goroutine and the tasks are scheduled: whenever a step of the
\* program is possible, one is eventually taken; the caller's pattern is the default
InitSearchDefault ==
    InitSearchOnly /\ pattern = DefaultPattern /\ server = {LocOld, LocNew, LocOther, NoLocation}
FairSearch == InitSearchDefault /\ [][NextSearch]_vars /\ WF_vars(Program)

Init == InitNormOnly \/ InitTxtOnly \/ InitParseOnly \/ InitSearchOnly
Next == NextNorm \/ NextTxt \/ NextParse \/ NextSearch
Spec == Init /\ [][Next]_vars

(***************************************************************************)
(* Properties of SearchXLSURL                                              *)
(***************************************************************************)
\* C1: when SearchXLSURL has returned from the resolution of the candidates, of
\* which at least one and at most as many as resultsCh holds qualified, and no
\* task returned an error, it returned without error a qualifying Location whose
\* path.Base is not less, in byte order, than the path.Base of any qualifying
\* Location; this for every interleaving of the tasks
C1_LargestBase ==
    (/\ srchPc = "returned"
     /\ ret.line \in {169, 177, 183}
     /\ grpErr = ErrNil
     /\ BagCardinality(qualified) \in 1..ResultsCap)
    => /\ ret.err = ErrNil
       /\ BagIn(ret.url, qualified)
       /\ \A loc \in BagToSet(qualified) : ~StrLess(Base(ret.url), Base(loc))

\* two tasks sent their Locations, the greater file name first, and it was returned
C1_Witness ==
    /\ srchPc = "returned"
    /\ resultsCh = <<LocNew, LocOld>>
    /\ StrLess(Base(LocOld), Base(LocNew))
    /\ ret.url = LocNew

C10_CancelStopsRetries ==
    /\ [][cancelled =>
            /\ \A i \in DOMAIN task :
                /\ task[i].pc = "wait" => task'[i].pc \in {"wait", "done"}
                /\ (task'[i].pc = "append" /\ task[i].pc # "append") => task[i].pc = "run"
                /\ task'[i].pc = "run" => task[i].pc \in {"new", "run"}
                /\ task'[i].attempt <= task[i].attempt + 1
            /\ resultsCh' = resultsCh]_vars
    /\ (cancelled ~> srchPc = "returned")

\* ctx is cancelled while one task waits for its delay, another is running its
\* first request and a third is still to be started
C10_Witness ==
    /\ cancelled
    /\ srchPc = "resolve"
    /\ \E i, j, k \in DOMAIN task :
        /\ task[i].pc = "wait"
        /\ task[j].pc = "run"
        /\ task[k].pc = "new"

\* C11: when ctx was cancelled while a task of the resolution had not ended,
\* SearchXLSURL returns an error, never a URL with a nil error
C11_CancelIsError ==
    (srchPc = "returned" /\ midway) => ret.err # ErrNil

\* C12: no error appended to errs is lost: the append of line 139 by any task
\* leaves errs one longer than it was, whatever the other tasks did meanwhile,
\* so that the error of line 177 joins the error of every failed attempt
C12_NoErrorLost ==
    [][\A i \in DOMAIN task :
            (task[i].pc = "append" /\ task'[i].pc # "append") => errs' = errs + 1]_vars

\* C14: whatever the pattern, a response without a Location header is never
\* sent to resultsCh
C14_OnlyLocations ==
    \A k \in 1..Len(resultsCh) : resultsCh[k] # NoLocation

\* C18: when all tasks have ended without a cancellation and every qualifying
\* Location is in resultsCh, the URL that lines 179-183 return is determined by
\* the Locations alone: whatever order they arrived in, the same one is last
\* after the sort
C18_Deterministic ==
    (/\ srchPc = "resolve"
     /\ task # <<>>
     /\ \A i \in DOMAIN task : task[i].pc = "done"
     /\ ~cancelled
     /\ grpErr = ErrNil
     /\ resultsCh # <<>>
     /\ BagCardinality(qualified) = Len(resultsCh))
    => \A u, v \in SortedLast(resultsCh) : u = v

C16_ConcurrencyCeiling ==
    /\ [](Cardinality(Active) <= Limit)
    /\ [][\A i \in DOMAIN task :
            (task[i].pc = "new" /\ task'[i].pc # "new") => Cardinality(Active) < Limit]_vars

\* a task beyond the first Limit ones runs beside Limit - 1 others, after a task
\* has ended
C16_Witness ==
    /\ Cardinality(Active) = Limit
    /\ \E i, j \in DOMAIN task :
        /\ i > Limit
        /\ task[i].pc = "run"
        /\ task[j].pc = "done"

\* C17: resultsCh never holds more than ResultsCap results; the step of a task
\* that has a result while resultsCh is full leaves resultsCh as it is and ends
\* the task; and the resolution always ends: all tasks end and SearchXLSURL
\* returns, however many candidates qualify
C17_NeverBlocks ==
    /\ [](Len(resultsCh) <= ResultsCap)
    /\ [][(Len(resultsCh) = ResultsCap /\ qualified' # qualified) =>
            /\ resultsCh' = resultsCh
            /\ \E i \in DOMAIN task : task[i].pc # "done" /\ task'[i].pc = "done"]_vars
    /\ (srchPc = "resolve" ~> (srchPc = "returned" /\ \A i \in DOMAIN task : task[i].pc = "done"))

\* more candidates qualified than resultsCh holds, and SearchXLSURL returned
C17_Witness ==
    /\ srchPc = "returned"
    /\ Len(resultsCh) = ResultsCap
    /\ BagCardinality(qualified) > ResultsCap
    /\ ret.line = 183

(***************************************************************************)
(* Properties of Parse                                                     *)
(***************************************************************************)
\* C3: every record Parse returns, whichever parser produced it, has a
\* Bankszerv of exactly 8 bytes, a non-empty Nev, and a non-empty Irszam or Cim
C3_ValidRecords ==
    parsePc = "returned" =>
        \A k \in 1..Len(hit) :
            /\ Len(hit[k].Bankszerv) = 8
            /\ hit[k].Nev # <<>>
            /\ (hit[k].Irszam # <<>> \/ hit[k].Cim # <<>>)

\* C4: the records Parse returns are in the order of their rows in the source:
\* of two returned records the one from the earlier row comes first (the header
\* row is row 0, the code of data row r ends with the digit r)
C4_SourceOrder ==
    parsePc = "returned" =>
        LET row(h) == IF h.Bankszerv = HeaderOf("default")[1] THEN 0
                      ELSE CHOOSE r \in 1..9 : DigitOf(r) = h.Bankszerv[Len(h.Bankszerv)]
        IN  \A p, q \in 1..Len(hit) : p < q => row(hit[p]) < row(hit[q])

\* C9: when Parse has returned from a reader it could buffer, then for leading
\* bytes "%PDF-1" the first parser it invoked was the PDF extraction and it
\* invoked no spreadsheet parser, and for any other leading bytes the first
\* parser it invoked was ParseXLSX
C9_Routing ==
    (parsePc = "returned" /\ ~(calls = <<>> /\ err = ErrOther)) =>
        /\ calls # <<>>
        /\ IF HasPrefix(input.head, PdfMagic)
           THEN /\ calls[1] = "parsePDFTabula"
                /\ \A n \in 1..Len(calls) : calls[n] \notin {"ParseXLSX", "ParseXLS"}
           ELSE calls[1] = "ParseXLSX"

\* C13: no table makes Parse abort: a row or header row with fewer than four
\* cells, in the spreadsheet or in the CSV of the table-extraction tool, is
\* left out and Parse goes on to return
C13_ShortRowsDiscarded ==
    parsePc # "panicked"

\* C19: whenever parsePDFTabula has returned an error, ParsePDF goes on to
\* parsePDFPdfToText, whatever parsePDFTabula had read of the reader by then;
\* the input parsePDFPdfToText gets is the bytes of the reader from the first to
\* the last, each once and in order; and what ParsePDF returns is what
\* parsePDFPdfToText returned for that input, nothing of the first strategy
C19_Fallback ==
    /\ (calls = <<"parsePDFTabula">> /\ err # ErrNil) =>
            (/\ parsePc = "pdftotext"
             /\ rpos \in 0..input.size)
    /\ (parsePc = "returned" /\ Len(calls) > 0 /\ calls[Len(calls)] = "parsePDFPdfToText") =>
            /\ calls = <<"parsePDFTabula", "parsePDFPdfToText">>
            /\ WholeFrom(stdin, 0, input.size)
            /\ Result(hit, err) \in PdfToTextResults(input, <<Chunk(0, input.size)>>)

\* the copy of the first strategy failed halfway through a PDF of two rows, and
\* the second strategy returned the records of both rows
C19_Witness ==
    /\ parsePc = "returned"
    /\ calls = <<"parsePDFTabula", "parsePDFPdfToText">>
    /\ rpos = input.size \div 2
    /\ buf = <<Chunk(0, rpos)>>
    /\ stdin = <<Chunk(0, rpos), Chunk(rpos, input.size)>>
    /\ Len(input.rows) = 2
    /\ Len(hit) = 2
    /\ err = ErrNil

(***************************************************************************)
(* Properties of checkAppend                                               *)
(***************************************************************************)
\* C5: checkAppend is idempotent: the record it stored, handed to it again, is
\* accepted again and stored equal in all fields
C5_Idempotent ==
    normPc = "twice" =>
        /\ Len(recs) = Len(before) + 1
        /\ recs[Len(recs)] = before[Len(before)]

\* C6: checkAppend returns the sequence unchanged when the code of the record,
\* without its NUL bytes and trimmed, is not exactly 8 bytes long; it appends
\* exactly one record, at the end, when that code is 8 bytes long, the name is
\* not empty and the postal code or the address is not empty
C6_AcceptRule ==
    normPc \in {"once", "twice"} =>
        LET code == TrimSpace(ReplaceAllNul(rec.Bankszerv))
            name == TrimSpace(ReplaceAllNul(rec.Nev))
            irszam == TrimSpace(ReplaceAllNul(rec.Irszam))
            cim == TrimSpace(ReplaceAllNul(rec.Cim))
        IN  /\ Len(code) # 8 => recs = before
            /\ (Len(code) = 8 /\ name # <<>> /\ (irszam # <<>> \/ cim # <<>>)) =>
                    /\ Len(recs) = Len(before) + 1
                    /\ SubSeq(recs, 1, Len(before)) = before
                    /\ recs[Len(recs)].Bankszerv = code

\* a record was appended at the end of a sequence that already held one
C6_Witness ==
    /\ normPc = "twice"
    /\ Len(before) = 1
    /\ Len(recs) = 2
    /\ recs[1] = before[1]

\* C7: the record checkAppend stores has the first 4 bytes of the trimmed address
\* as its postal code and the text after the following space as its address
\* exactly when the trimmed postal code is empty, the trimmed address is longer
\* than 5 bytes, its first space is at offset 4 and its first 4 bytes are all
\* digits; otherwise it has the trimmed postal code and address unchanged
C7_PostalRecovery ==
    (normPc \in {"once", "twice"} /\ Len(recs) > Len(before)) =>
        LET irszam == TrimSpace(ReplaceAllNul(rec.Irszam))
            cim == TrimSpace(ReplaceAllNul(rec.Cim))
            stored == recs[Len(recs)]
            recovers ==
                /\ irszam = <<>>
                /\ Len(cim) > 5
                /\ cim[5] = SP
                /\ \A j \in 1..4 : cim[j] \in Digits
        IN  IF recovers
            THEN stored.Irszam = SubSeq(cim, 1, 4) /\ stored.Cim = SubSeq(cim, 6, Len(cim))
            ELSE stored.Irszam = irszam /\ stored.Cim = cim

\* a record with no postal code and an address of four digits, a space and a
\* letter was stored with the digits as its postal code
C7_Witness ==
    /\ normPc = "once"
    /\ Len(recs) = 1
    /\ Clean(rec.Irszam) = <<>>
    /\ Clean(rec.Cim) = <<"1", "1", "1", "1", SP, "a">>
    /\ recs[1].Irszam = <<"1", "1", "1", "1">>
    /\ recs[1].Cim = <<"a">>

(***************************************************************************)
(* Properties of parseTXT                                                  *)
(***************************************************************************)
\* C8: a flush of a page buffer of 4k lines L[0..4k-1] offers to checkAppend,
\* after what was offered before and for i = 0..k-1 in this order, the record
\* with code L[i], name L[k+i], postal code L[2k+i] and address L[3k+i], and
\* leaves the buffer empty; a buffer of exactly 4 lines flushed by a form feed,
\* whose first line is a code of 8 bytes and whose third is not empty, adds
\* exactly the one record made of the 4 lines in order
C8_ColumnMajorFlush ==
    [][(txtPc \in {"flush", "last"} /\ Len(lines) % 4 = 0) =>
        LET k == Len(lines) \div 4
            L(n) == lines[n + 1]
        IN  /\ offered' = offered \o
                    [i \in 1..k |->
                        Hitelezo(L(i - 1), <<>>, L(k + i - 1), L(2 * k + i - 1), L(3 * k + i - 1))]
            /\ lines' = <<>>
            /\ (txtPc = "flush" /\ k = 1 /\ Len(L(0)) = 8 /\ L(2) # <<>>) =>
                    records' = Append(records, Hitelezo(L(0), <<>>, L(1), L(2), L(3)))
      ]_vars

\* the form feed that opens the second page flushed a first page of two rows:
\* both were kept, each with the name of its own row
C8_Witness ==
    /\ txtPc = "rest"
    /\ Len(offered) = 2
    /\ Len(records) = 2
    /\ records[1].Bankszerv = Cell(1, 0, 1) /\ records[1].Nev = TrimSpace(Cell(1, 1, 1))
    /\ records[2].Bankszerv = Cell(1, 0, 2) /\ records[2].Nev = TrimSpace(Cell(1, 1, 2))

\* C20: once a digit-initial line has been seen, every line that starts with
\* a form feed makes parseTXT flush the page buffer when the scanner delivers
\* it, before any later line is put into the buffer, also when the line holds
\* the footer fragment or ends with the page suffix
C20_FormFeedFlushes ==
    [][(/\ txtPc = "scan"
        /\ pos < Len(doc)
        /\ pos' = pos + 1
        /\ numberSeen
        /\ IsFormFeedLine(doc[pos'])) => txtPc' = "flush"]_vars

====
